---- MODULE Spec2Model ----
(***************************************************************************)
(* Model of the harvesting scripts of ia-documents:                        *)
(*   scripts/measure_resistance.py     sequential coordinator, harvester   *)
(*                                     without resource limits             *)
(*   scripts/measure_resistance_v1.py  thread-pool coordinator, harvester  *)
(*                                     with page/duration/stable limits    *)
(*   scripts/fast_scan.py              sequential one-page spot check      *)
(* The disk (checkpoint file, result stores) survives a process; the       *)
(* process state (lists in memory, threads) is lost when it ends.          *)
(***************************************************************************)
EXTENDS Integers, Sequences, FiniteSets, TLC

\* ------------------------------------------------------------------ bounds

\* number of domains of the input list
NumDomains == 2
\* processes started one after the other on the same disk
MaxRuns == 2
\* --workers (argparse default 5)
NumWorkers == 2
\* --max-pages (default MAX_PAGES = 50)
MaxPagesCfg == 2
\* --max-duration in clock ticks (default MAX_DURATION = 1200 s)
MaxDurationCfg == 2
\* --stable-threshold-count (default STABLE_THRESHOLD_COUNT = 10000)
StableThresholdCfg == 2
\* the clock of a harvest is followed up to MaxDurationCfg + ClockSlack ticks
ClockSlack == 1
\* attempts of one page request that are followed
MaxAttempts == 7
\* page requests of one harvest that are followed
MaxRequests == 4
\* the periodic save interval of the thread-pool coordinator (10 in the code)
SaveEveryPar == 2
\* the periodic save interval of the fast scan (50 in the code)
SaveEveryFast == 3
\* process_domain calls followed when harvests are studied on their own
MaxHarvests == 2
\* rows followed through the stats update loop when it is studied on its own
MaxRows == 4
\* the status codes 0..MaxCode are compared with the counters they increment
MaxCode == 999

\* ------------------------------------------------------- program constants

MAX_RETRIES == 5

\* ------------------------------------------------------------ text values
\* A Python str is a sequence of one-character strings.

Digits == {"0", "1", "2", "3", "4", "5", "6", "7", "8", "9"}

DigitVal(c) ==
    CASE c = "0" -> 0 [] c = "1" -> 1 [] c = "2" -> 2 [] c = "3" -> 3
      [] c = "4" -> 4 [] c = "5" -> 5 [] c = "6" -> 6 [] c = "7" -> 7
      [] c = "8" -> 8 [] c = "9" -> 9

\* the character U+00B2 (superscript two): str.isdigit() accepts it, int()
\* does not
SuperscriptTwo == "^2"

\* str.isdigit(): non-empty and every character a digit
isdigit(s) ==
    Len(s) > 0 /\ \A i \in 1..Len(s) : s[i] \in Digits \cup {SuperscriptTwo}

\* int(s) raises ValueError on a string that passed isdigit()
IntRaises(s) == \E i \in 1..Len(s) : s[i] \notin Digits

RECURSIVE int(_)
\* int(s) for a string of digits
int(s) == IF Len(s) = 0 THEN 0
          ELSE 10 * int(SubSeq(s, 1, Len(s) - 1)) + DigitVal(s[Len(s)])

\* s[a:b] with 0 <= a <= b (Python slice, clipped to the string)
Slice(s, a, b) ==
    LET hi == IF b > Len(s) THEN Len(s) ELSE b
    IN  IF a >= hi THEN << >> ELSE SubSeq(s, a + 1, hi)

\* A JSON scalar inside a row: a string, or null (None in Python).
Str(s) == [t |-> "str", v |-> s]
Null == [t |-> "null", v |-> << >>]
\* None as the value of resume_key / new_resume_key
None == Null

\* bool(x) of a str-or-None value: None and "" are falsy
Truthy(x) == x.t = "str" /\ Len(x.v) > 0

\* ------------------------------------------------------------- aggregation

StatKeys == {"total", "2xx", "3xx", "4xx", "403", "404", "429", "5xx"}
MonthKeys == {"total", "2xx", "3xx", "4xx", "403", "404", "5xx"}

\* stats = {'total': 0, '2xx': 0, ...}
ZeroStats == [k \in StatKeys |-> 0]
\* monthly_stats[month_key] = {'total': 0, ...}
ZeroMonth == [k \in MonthKeys |-> 0]

\* mutant: the bucket is keyed by the year and the day of the month
month_key_day(ts) == Slice(ts, 0, 4) \o <<"-">> \o Slice(ts, 6, 8)

\* f"{ts[:4]}-{ts[4:6]}"
month_key(ts) == Slice(ts, 0, 4) \o <<"-">> \o Slice(ts, 4, 6)

\* +1 on the keys ks of a counter record
Bump(rec, ks) == [k \in DOMAIN rec |-> IF k \in ks THEN rec[k] + 1 ELSE rec[k]]

\* mutant: the 403 and 404 counters are incremented without the 4xx counter
CodeKeysWithout4xx(code) ==
    (IF 200 <= code /\ code < 300 THEN {"2xx"} ELSE {})
    \cup (IF 300 <= code /\ code < 400 THEN {"3xx"} ELSE {})
    \cup (IF code = 403 THEN {"403"}
          ELSE IF code = 404 \/ code = 410 THEN {"404"}
          ELSE IF 400 <= code /\ code < 500 THEN {"4xx"} ELSE {})
    \cup (IF 500 <= code /\ code < 600 THEN {"5xx"} ELSE {})
    \cup {"total"}

\* the counters one numeric status code increments
CodeKeys(code) ==
    (IF 200 <= code /\ code < 300 THEN {"2xx"} ELSE {})
    \cup (IF 300 <= code /\ code < 400 THEN {"3xx"} ELSE {})
    \cup (IF 400 <= code /\ code < 500
          THEN {"4xx"} \cup (IF code = 403 THEN {"403"}
                             ELSE IF code = 404 \/ code = 410 THEN {"404"}
                             ELSE {})
          ELSE {})
    \cup (IF 500 <= code /\ code < 600 THEN {"5xx"} ELSE {})
    \cup {"total"}

\* monthly_stats with the bucket of key mk present
WithBucket(monthly, mk) ==
    [k \in DOMAIN monthly \cup {mk} |->
        IF k \in DOMAIN monthly THEN monthly[k] ELSE ZeroMonth]

\* One iteration of the stats update loop on the accumulator
\* acc = [raised, stats, monthly]; raised: the iteration raised an exception.
ApplyRow(acc, row) ==
    IF acc.raised \/ Len(row) < 2 THEN acc
    ELSE LET ts == row[1]
             status == row[2]
         IN  IF ts.t # "str" THEN [acc EXCEPT !.raised = TRUE]      \* len(None)
             ELSE IF Len(ts.v) < 6 THEN acc
             ELSE LET mk == month_key(ts.v)
                      m1 == WithBucket(acc.monthly, mk)
                  IN  IF status.t # "str"                          \* None.isdigit()
                      THEN [acc EXCEPT !.raised = TRUE]
                      ELSE IF ~isdigit(status.v)
                      THEN [acc EXCEPT !.monthly = m1]
                      ELSE IF IntRaises(status.v)
                      THEN [acc EXCEPT !.raised = TRUE]
                      ELSE LET ks == CodeKeys(int(status.v))
                           IN  [raised |-> FALSE,
                                stats |-> Bump(acc.stats, ks),
                                monthly |-> [m1 EXCEPT ![mk] = Bump(m1[mk], ks \cap MonthKeys)]]

RECURSIVE ApplyRows(_, _)
\* for row in rows_to_process: ...
ApplyRows(acc, rows) ==
    IF Len(rows) = 0 THEN acc
    ELSE ApplyRows(ApplyRow(acc, Head(rows)), Tail(rows))

\* ------------------------------------------------------ resume key, header

\* last_row[0] is a 14-digit timestamp string
IsTimestamp14(f) == f.t = "str" /\ isdigit(f.v) /\ Len(f.v) = 14

\* the last row of the page is taken as the resume key row
LastIsKey(data) ==
    /\ Len(data) > 0
    /\ Len(data[Len(data)]) >= 1
    /\ ~IsTimestamp14(data[Len(data)][1])

\* new_resume_key after the detection
DetectKey(data) == IF LastIsKey(data) THEN data[Len(data)][1] ELSE None

\* rows_to_process after the detection (data[:-1] when a key row was found)
WithoutKey(data) == IF LastIsKey(data) THEN SubSeq(data, 1, Len(data) - 1) ELSE data

TIMESTAMP == <<"t", "i", "m", "e", "s", "t", "a", "m", "p">>

\* rows_to_process[0][0] raises IndexError on an empty first row
HeaderRaises(rows) == Len(rows) > 0 /\ Len(rows[1]) = 0

\* rows_to_process after dropping a header row
WithoutHeader(rows) ==
    IF Len(rows) > 0 /\ Len(rows[1]) > 0 /\ rows[1][1] = Str(TIMESTAMP)
    THEN Tail(rows) ELSE rows

\* The body of the page loop after a successful fetch of a non-empty JSON
\* value: key detection, header removal, stats update.
\* body.kind = "obj": a JSON object, data[-1] raises KeyError.
ProcessPage(stats, monthly, body) ==
    IF body.kind = "obj"
    THEN [raised |-> TRUE, stats |-> stats, monthly |-> monthly, key |-> None]
    ELSE LET rows0 == WithoutKey(body.rows)
         IN  IF HeaderRaises(rows0)
             THEN [raised |-> TRUE, stats |-> stats, monthly |-> monthly, key |-> None]
             ELSE LET acc == ApplyRows([raised |-> FALSE, stats |-> stats,
                                        monthly |-> monthly],
                                       WithoutHeader(rows0))
                  IN  [raised |-> acc.raised, stats |-> acc.stats,
                       monthly |-> acc.monthly, key |-> DetectKey(body.rows)]

\* ------------------------------------------------------- derived ratios

RECURSIVE Gcd(_, _)
Gcd(a, b) == IF b = 0 THEN a ELSE Gcd(b, a % b)

\* a / b as a float, kept as the fraction in lowest terms (0.0 is <<0, 1>>)
Frac(a, b) == IF a = 0 THEN <<0, 1>> ELSE <<a \div Gcd(a, b), b \div Gcd(a, b)>>

\* mutant: the ratio is computed without the test of its denominator
RatioUnguarded(st) == Frac(st["4xx"], st["2xx"])

\* ratio_4xx = 4xx / 2xx if 2xx > 0 else 0.0
Ratio(st) == IF st["2xx"] > 0 THEN Frac(st["4xx"], st["2xx"]) ELSE <<0, 1>>

\* share_4xx = 4xx / (2xx + 4xx) if the denominator > 0 else 0.0
Share(st) == IF st["2xx"] + st["4xx"] > 0
             THEN Frac(st["4xx"], st["2xx"] + st["4xx"]) ELSE <<0, 1>>

\* f"{x:.4f}" as a number of ten-thousandths, rounded half to even.  A tie
\* needs a denominator that is a multiple of 32.
Fmt4(q) ==
    LET n == q[1] * 10000
        d == q[2]
        fl == n \div d
        r2 == 2 * (n % d)
    IN  IF r2 > d \/ (r2 = d /\ fl % 2 = 1) THEN fl + 1 ELSE fl

\* the summary dict process_domain returns
Summary(st) ==
    [total_captures |-> st["total"], count_2xx |-> st["2xx"],
     count_3xx |-> st["3xx"], count_4xx |-> st["4xx"],
     count_403 |-> st["403"], count_404 |-> st["404"],
     count_5xx |-> st["5xx"],
     ratio_4xx_to_2xx |-> Ratio(st), share_4xx |-> Share(st)]

\* ------------------------------------------------------------ harvester
\* process_domain as a state machine over its local variables.
\*   pc = "idle"     no call in progress on this thread
\*        "head"     at `while more_pages:`
\*        "attempt"  inside `while retries <= MAX_RETRIES:`, before urlopen
\*        "returned" the call returned (summary, monthly_stats)
\*        "raised"   the call raised an exception
\* attempts, requests, sent and why are history fields: the attempts made
\* for the current request, the requests built so far, the resumeKey
\* parameter of each, and the branch that ended the loop.

IdleHarvest ==
    [pc |-> "idle", domain |-> 0, stats |-> ZeroStats, monthly |-> << >>,
     resume_key |-> None, pages_processed |-> 0, elapsed |-> 0, retries |-> 0,
     attempts |-> 0, requests |-> 0, sent |-> << >>, why |-> "none"]

\* the locals at the start of process_domain(domain)
NewHarvest(d) == [IdleHarvest EXCEPT !.pc = "head", !.domain = d]

\* the loop is left: the final summary calculation and the return
Finalize(hr, reason) == [hr EXCEPT !.pc = "returned", !.why = reason]

\* mutant: the sample size is compared with >= instead of >
StableBlockNonStrict(st, threshold) ==
    st["total"] >= threshold /\ st["403"] * 1000 > 995 * st["total"]

\* stats['total'] > STABLE_THRESHOLD_COUNT and stats['403'] / stats['total'] > 0.995
StableBlock(st, threshold) ==
    st["total"] > threshold /\ st["403"] * 1000 > 995 * st["total"]

\* the request is built and the retry loop entered
BuildRequest(hr) ==
    [hr EXCEPT !.pc = "attempt", !.retries = 0, !.attempts = 0,
               !.requests = @ + 1,
               !.sent = Append(@, IF Truthy(hr.resume_key) THEN hr.resume_key ELSE None)]

\* mutant: the page limit is tested with > instead of >=
HeadLimitedPastLimit(hr) ==
    IF hr.pages_processed > MaxPagesCfg THEN Finalize(hr, "page_limit")
    ELSE IF hr.elapsed > MaxDurationCfg THEN Finalize(hr, "duration_limit")
    ELSE IF StableBlock(hr.stats, StableThresholdCfg)
         THEN Finalize(hr, "early_stop_stable_block")
    ELSE BuildRequest(hr)

\* measure_resistance_v1.py: the checks at the head of the page loop
HeadLimited(hr) ==
    IF hr.pages_processed >= MaxPagesCfg THEN Finalize(hr, "page_limit")
    ELSE IF hr.elapsed > MaxDurationCfg THEN Finalize(hr, "duration_limit")
    ELSE IF StableBlock(hr.stats, StableThresholdCfg)
         THEN Finalize(hr, "early_stop_stable_block")
    ELSE BuildRequest(hr)

\* mutant: the harvester without limits stops after its first page
HeadUnlimitedOnePage(hr) ==
    IF hr.requests >= 1 THEN Finalize(hr, "completed") ELSE BuildRequest(hr)

\* measure_resistance.py: no check at the head of the page loop
HeadUnlimited(hr) == BuildRequest(hr)

\* the except branch of the retry loop: sleep, retries += 1, and the exit of
\* the loop with success = False once retries > MAX_RETRIES
AfterException(hr) ==
    IF hr.retries + 1 <= MAX_RETRIES
    THEN [hr EXCEPT !.retries = @ + 1]
    ELSE Finalize([hr EXCEPT !.retries = @ + 1], "fetch_failed")

\* the JSONDecodeError branch: log and pass, then the loop condition again
AfterJsonError(hr) == hr

\* after the stats update loop: pages_processed += 1 (counts is TRUE in the
\* limited harvester) and the resume key decision
AfterPage(hr, res, counts) ==
    LET h1 == [hr EXCEPT !.stats = res.stats, !.monthly = res.monthly,
                         !.pages_processed = IF counts THEN @ + 1 ELSE @]
    IN  IF res.raised THEN [hr EXCEPT !.pc = "raised", !.why = "exception"]
        ELSE IF Truthy(res.key)
        THEN IF res.key = hr.resume_key
             THEN Finalize(h1, "resume_loop_detected")
             ELSE [h1 EXCEPT !.pc = "head", !.resume_key = res.key]
        ELSE Finalize(h1, "completed")

\* mutant: a blank body or an empty array is handled as a failed fetch
AttemptEmptyIsFailure(hr, resp, counts) ==
    LET h1 == [hr EXCEPT !.attempts = @ + 1]
    IN  CASE resp.kind \in {"neterr", "empty"} -> AfterException(h1)
          [] resp.kind = "badjson" -> AfterJsonError(h1)
          [] resp.kind = "list" /\ Len(resp.rows) = 0 -> AfterException(h1)
          [] OTHER -> AfterPage(h1, ProcessPage(h1.stats, h1.monthly, resp), counts)

\* One pass of the retry loop body on the response resp of the index API:
\*   kind "neterr"   urlopen or read raised (network error, timeout, HTTP error)
\*        "badjson"  the body is not JSON
\*        "empty"    the body is blank
\*        "list"     the body is a JSON array, rows
\*        "obj"      the body is a non-empty JSON object
Attempt(hr, resp, counts) ==
    LET h1 == [hr EXCEPT !.attempts = @ + 1]
    IN  CASE resp.kind = "neterr" -> AfterException(h1)
          [] resp.kind = "badjson" -> AfterJsonError(h1)
          [] resp.kind = "empty" -> Finalize(h1, "completed")
          [] resp.kind = "list" /\ Len(resp.rows) = 0 -> Finalize(h1, "completed")
          [] OTHER -> AfterPage(h1, ProcessPage(h1.stats, h1.monthly, resp), counts)

\* what process_domain returns
Returned(hr) == [summary |-> Summary(hr.stats), monthly |-> hr.monthly]

\* formats the summary and the monthly buckets as worker_task and main do:
\* the row of the summary store
SummaryRow(d, res) ==
    [kind |-> "row", domain |-> d, total_captures |-> res.summary.total_captures,
     count_2xx |-> res.summary.count_2xx, count_3xx |-> res.summary.count_3xx,
     count_4xx |-> res.summary.count_4xx, count_403 |-> res.summary.count_403,
     count_404 |-> res.summary.count_404, count_5xx |-> res.summary.count_5xx,
     ratio_4xx_to_2xx |-> Fmt4(res.summary.ratio_4xx_to_2xx),
     share_4xx |-> Fmt4(res.summary.share_4xx)]

\* the row of the monthly store for bucket m
MonthlyRow(d, m, st) ==
    [kind |-> "row", domain |-> d, month |-> m, total_month |-> st["total"],
     count_2xx |-> st["2xx"], count_3xx |-> st["3xx"], count_4xx |-> st["4xx"],
     count_403 |-> st["403"], count_404 |-> st["404"], count_5xx |-> st["5xx"],
     ratio_month |-> Fmt4(Ratio(st)), share_month |-> Fmt4(Share(st))]

\* the order of str values: character by character, a prefix first
CharOrd(c) == IF c \in Digits THEN 48 + DigitVal(c)
              ELSE IF c = "-" THEN 45
              ELSE IF c = "T" THEN 84
              ELSE IF c = "a" THEN 97 ELSE IF c = "e" THEN 101
              ELSE IF c = "i" THEN 105 ELSE IF c = "m" THEN 109
              ELSE IF c = "p" THEN 112 ELSE IF c = "s" THEN 115
              ELSE IF c = "t" THEN 116 ELSE 120

RECURSIVE StrLess(_, _)
StrLess(a, b) ==
    IF Len(b) = 0 THEN FALSE
    ELSE IF Len(a) = 0 THEN TRUE
    ELSE IF CharOrd(Head(a)) # CharOrd(Head(b)) THEN CharOrd(Head(a)) < CharOrd(Head(b))
    ELSE StrLess(Tail(a), Tail(b))

RECURSIVE SortedKeys(_)
\* sorted(monthly.keys())
SortedKeys(ks) ==
    IF ks = {} THEN << >>
    ELSE LET least == CHOOSE k \in ks : \A o \in ks \ {k} : StrLess(k, o)
         IN  <<least>> \o SortedKeys(ks \ {least})

RECURSIVE MonthlyRowsOf(_, _, _)
MonthlyRowsOf(d, monthly, keys) ==
    IF Len(keys) = 0 THEN << >>
    ELSE <<MonthlyRow(d, Head(keys), monthly[Head(keys)])>>
         \o MonthlyRowsOf(d, monthly, Tail(keys))

\* m_rows: one row per month, in the order of the sorted month keys
MonthlyRows(d, monthly) == MonthlyRowsOf(d, monthly, SortedKeys(DOMAIN monthly))

\* ------------------------------------------------------------ index API
\* What the index API may answer to one request.

TS_JAN == <<"2", "0", "2", "4", "0", "1", "1", "5", "0", "9", "3", "0", "0", "0">>
TS_FEB == <<"2", "0", "2", "4", "0", "2", "0", "1", "0", "0", "0", "0", "0", "0">>
T1 == <<"T", "1">>
S200 == <<"2", "0", "0">>
S403 == <<"4", "0", "3">>

NetErr == [kind |-> "neterr", rows |-> << >>]
BadJson == [kind |-> "badjson", rows |-> << >>]
EmptyBody == [kind |-> "empty", rows |-> << >>]
Page(rows) == [kind |-> "list", rows |-> rows]

\* a page of one capture that ends with the resume key T1
PageMore == Page(<< <<Str(TS_JAN), Str(S200)>>, <<Str(T1)>> >>)
\* a last page of one capture
PageLast == Page(<< <<Str(TS_JAN), Str(S200)>> >>)
\* a page that holds the resume key T1 only
PageKeyOnly == Page(<< <<Str(T1)>> >>)
\* a last page of two captures, of two months
PageTwoMonths == Page(<< <<Str(TS_JAN), Str(S200)>>, <<Str(TS_FEB), Str(S403)>> >>)
\* a page whose only row is empty
PageEmptyRow == Page(<< << >> >>)

\* every attempt of one request fails with a network error
AllFail == [i \in 1..(MAX_RETRIES + 1) |-> NetErr]

T2 == <<"T", "2">>
\* a page of three blocked captures that ends with the resume key T2
PageMore2 ==
    Page(<< <<Str(TS_FEB), Str(S403)>>, <<Str(TS_FEB), Str(S403)>>,
            <<Str(TS_FEB), Str(S403)>>, <<Str(T2)>> >>)

\* The answers to the attempts of one request that a coordinator run
\* follows: the request fails for good, or succeeds at once or after a
\* network error and a malformed body.
CoordOutcomes ==
    {AllFail, <<PageKeyOnly>>, <<NetErr, BadJson, PageTwoMonths>>, <<PageEmptyRow>>}

\* the clock ticks during one request that a coordinator run follows: none,
\* or enough to pass the duration limit
CoordTicks == {0, MaxDurationCfg + ClockSlack}

\* ------------------------------------------------------------------ state

VARIABLES
    script,          \* "seq": measure_resistance.py, "par": measure_resistance_v1.py,
                     \* "fast": fast_scan.py
    domains,         \* the domain list read from the input file
    ckptFile,        \* CHECKPOINT_FILE: [exists, ok, list]; ok: the content is
                     \* the JSON text of a whole save
    summaryStore,    \* OUTPUT_SUMMARY_CSV (OUTPUT_FILE of the fast scan):
                     \* [exists, rows]
    monthlyStore,    \* OUTPUT_MONTHLY_CSV: [exists, rows]
    run,             \* processes started so far
    mainpc,          \* position of the main thread; "off": no process
    processed_set,   \* set(checkpoint['processed_domains']) at load
    processed_list,  \* checkpoint['processed_domains'] / processed_list / processed
    queue,           \* domains not yet taken by the loop or by a pool thread
    count,           \* count
    cur,             \* the result main is writing
    results,         \* futures completed and not yet yielded by as_completed
    h,               \* the process_domain call of each thread
    interrupted,     \* SIGINT was delivered to this process
    \* history
    last_end,        \* how the last process ended
    prev_finished,   \* the process before the current one ran to its end
    fetched,         \* domains requested from the index API by this process
    appended,        \* domains a row was appended for by this process
    written,         \* domains whose rows were all appended by this process
    durable,         \* domains whose summary row and monthly rows are all on disk
    inflightAtInt,   \* domains being harvested when SIGINT arrived
    lateFetched,     \* domains requested after SIGINT
    latePaged,       \* domains a new page request was built for after SIGINT
    returned         \* what process_domain returned, and the branch that ended it
                     \* (with the domain, in the runs of a coordinator)

disk == <<ckptFile, summaryStore, monthlyStore, durable>>
proc == <<mainpc, processed_set, processed_list, queue, count, cur, results, h,
          interrupted>>
hist == <<last_end, prev_finished, fetched, appended, written, inflightAtInt, lateFetched,
          latePaged, returned>>
vars == <<script, domains, run, disk, proc, hist>>

Domains == 1..NumDomains
Threads == 1..NumWorkers
\* the thread of the sequential scripts
MainThread == 1

RECURSIVE Ascending(_)
Ascending(n) == IF n = 0 THEN << >> ELSE Append(Ascending(n - 1), n)

\* fetch_domains: the names deduplicated and sorted
SortedDomains == Ascending(NumDomains)

Range(seq) == {seq[i] : i \in 1..Len(seq)}

NoCur == [domain |-> 0, summary_row |-> << >>, m_rows |-> << >>, summary_done |-> FALSE]

\* the rows of one result, ready to be written
CurOf(d, res) ==
    [domain |-> d, summary_row |-> <<SummaryRow(d, res)>>,
     m_rows |-> MonthlyRows(d, res.monthly), summary_done |-> FALSE]

Header == [kind |-> "header"]

\* mutant: a write that overlaps the previous one, its rows landing before
\* the last row of the file
AppendRowsOverlapping(store, rows) ==
    [exists |-> TRUE,
     rows |-> IF Len(store.rows) >= 2
              THEN SubSeq(store.rows, 1, Len(store.rows) - 1) \o rows
                   \o <<store.rows[Len(store.rows)]>>
              ELSE (IF store.exists THEN << >> ELSE <<Header>>) \o store.rows \o rows]

\* write_csv_row / writer.writerows: the header when the file does not exist,
\* then the rows
AppendRows(store, rows) ==
    [exists |-> TRUE,
     rows |-> (IF store.exists THEN << >> ELSE <<Header>>) \o store.rows \o rows]

\* a file that does not exist
NoFile == [exists |-> FALSE, rows |-> << >>]
NoCheckpoint == [exists |-> FALSE, ok |-> TRUE, list |-> << >>]

\* the checkpoint file after open(CHECKPOINT_FILE, 'w') when the process died
\* before json.dump was flushed: empty or cut short, not JSON
TornCheckpoint == [exists |-> TRUE, ok |-> FALSE, list |-> << >>]

\* load_checkpoint() of measure_resistance.py and measure_resistance_v1.py:
\* the list of the file, or [] when it does not exist or json.load raises
load_checkpoint == IF ckptFile.exists /\ ckptFile.ok THEN ckptFile.list ELSE << >>

\* load_checkpoint() of fast_scan.py has no handler: json.load raises
FastLoadRaises == ckptFile.exists /\ ~ckptFile.ok

\* save_checkpoint(data): the file is overwritten
save_checkpoint(list) == [exists |-> TRUE, ok |-> TRUE, list |-> list]

\* mutant: the work list is not filtered by the loaded checkpoint
TodoUnfiltered(ds, done) == ds

\* [d for d in domains if d not in processed_set]
Todo(ds, done) == SelectSeq(ds, LAMBDA d : d \notin done)

\* the summary row and every monthly row of c are written
WriteDone(c) == c.summary_done /\ Len(c.m_rows) = 0

Init ==
    /\ script \in {"seq", "par", "fast"}
    /\ domains \in (IF script = "fast"
                   THEN {SortedDomains, Append(SortedDomains, 1)}
                   ELSE {SortedDomains})
    /\ ckptFile = NoCheckpoint
    /\ summaryStore = NoFile
    /\ monthlyStore = NoFile
    /\ run = 0
    /\ mainpc = "off"
    /\ processed_set = {}
    /\ processed_list = << >>
    /\ queue = << >>
    /\ count = 0
    /\ cur = NoCur
    /\ results = {}
    /\ h = [w \in Threads |-> IdleHarvest]
    /\ interrupted = FALSE
    /\ last_end = "none"
    /\ prev_finished = FALSE
    /\ fetched = {}
    /\ appended = {}
    /\ written = {}
    /\ durable = {}
    /\ inflightAtInt = {}
    /\ lateFetched = {}
    /\ latePaged = {}
    /\ returned = {}

\* ------------------------------------------------- steps shared by scripts

Min(a, b) == IF a < b THEN a ELSE b

\* the checks at the head of the page loop of the script's harvester
Head_(hr, limited) == IF limited THEN HeadLimited(hr) ELSE HeadUnlimited(hr)

\* process_domain(d) up to its first urlopen
Begin(d, limited) == Head_(NewHarvest(d), limited)

\* One urlopen call answered by resp after dt clock ticks, and the code that
\* follows it up to the next urlopen call or the end of process_domain.
Step(hr, resp, dt, limited) ==
    LET h0 == [hr EXCEPT !.elapsed = Min(@ + dt, MaxDurationCfg + ClockSlack)]
        h1 == Attempt(h0, resp, limited)
    IN  IF h1.pc = "head" THEN Head_(h1, limited) ELSE h1

RECURSIVE RunFrom(_, _, _, _)
RunFrom(hr, resps, limited, n) ==
    IF Len(resps) = 0 \/ hr.pc # "attempt" \/ hr.requests # n THEN hr
    ELSE RunFrom(Step(hr, Head(resps), 0, limited), Tail(resps), limited, n)

\* The retry loop of the current request run on the answers resps, dt clock
\* ticks in all, and the code that follows up to the next request or the
\* end of process_domain.
RunRequest(hr, resps, dt, limited) ==
    RunFrom([hr EXCEPT !.elapsed = Min(@ + dt, MaxDurationCfg + ClockSlack)],
            resps, limited, hr.requests)

\* resps carries the retry loop of the current request of hr to its end
Decides(hr, resps, limited) ==
    LET r == RunRequest(hr, resps, 0, limited)
    IN  r.pc # "attempt" \/ r.requests > hr.requests

\* the history of returns after a step that left the harvest hr
Returns(hr) ==
    IF hr.pc = "returned"
    THEN returned \cup {[domain |-> hr.domain, value |-> Returned(hr), why |-> hr.why]}
    ELSE returned

\* a harvest without its attempt and request history, which a coordinator
\* run does not follow
Quiet(hr) == [hr EXCEPT !.attempts = 0, !.sent = << >>]

\* the process is gone: nothing of its memory is left
Halt(how) ==
    /\ mainpc' = "off"
    /\ processed_list' = << >>
    /\ queue' = << >>
    /\ count' = 0
    /\ cur' = NoCur
    /\ results' = {}
    /\ h' = [w \in Threads |-> IdleHarvest]
    /\ last_end' = how

Busy == {w \in Threads : h[w].pc # "idle"}

\* A process starts: the checkpoint is loaded and the work list computed.
\* fast_scan.py also writes the header of a missing output file here.
Start ==
    /\ mainpc = "off"
    /\ run < MaxRuns
    /\ ~(script = "fast" /\ FastLoadRaises)
    /\ run' = run + 1
    /\ processed_list' = load_checkpoint
    /\ processed_set' = Range(load_checkpoint)
    /\ queue' = IF script = "fast" THEN domains ELSE Todo(domains, Range(load_checkpoint))
    /\ mainpc' = IF script = "par" THEN "collect" ELSE "loop"
    /\ summaryStore' = IF script = "fast" /\ ~summaryStore.exists
                       THEN [exists |-> TRUE, rows |-> <<Header>>] ELSE summaryStore
    /\ count' = 0
    /\ cur' = NoCur
    /\ results' = {}
    /\ h' = [w \in Threads |-> IdleHarvest]
    /\ interrupted' = FALSE
    /\ prev_finished' = (last_end = "finished")
    /\ last_end' = "running"
    /\ fetched' = {}
    /\ appended' = {}
    /\ written' = {}
    /\ inflightAtInt' = {}
    /\ lateFetched' = {}
    /\ latePaged' = {}
    /\ returned' = {}
    /\ UNCHANGED <<script, domains, ckptFile, monthlyStore, durable>>

\* fast_scan.py is started on a checkpoint file that is not JSON: the
\* exception of json.load leaves load_checkpoint and main, and the process
\* ends before it has done anything
FastLoadFails ==
    /\ script = "fast"
    /\ mainpc = "off"
    /\ run < MaxRuns
    /\ FastLoadRaises
    /\ run' = run + 1
    /\ prev_finished' = (last_end = "finished")
    /\ last_end' = "load_error"
    /\ interrupted' = FALSE
    /\ fetched' = {}
    /\ appended' = {}
    /\ written' = {}
    /\ inflightAtInt' = {}
    /\ lateFetched' = {}
    /\ latePaged' = {}
    /\ returned' = {}
    /\ UNCHANGED <<script, domains, disk, mainpc, processed_set, processed_list, queue,
                   count, cur, results, h>>

\* main is at a save_checkpoint call
AtSave ==
    \/ mainpc \in {"checkpoint", "save", "final_save"}
    \/ /\ script = "par" /\ mainpc = "collect"
       /\ Len(queue) = 0 /\ Busy = {} /\ results = {}

\* The process dies inside save_checkpoint, after open(CHECKPOINT_FILE, 'w')
\* has truncated the file and before the JSON text is flushed.
CrashInSave ==
    /\ AtSave
    /\ ckptFile' = TornCheckpoint
    /\ Halt("crashed")
    /\ UNCHANGED <<script, domains, run, summaryStore, monthlyStore, durable,
                   processed_set, interrupted, prev_finished, fetched, appended, written,
                   inflightAtInt, lateFetched, latePaged, returned>>

\* The process dies inside write_csv_row / write_monthly_rows, after
\* open(filepath, 'a') has created the file and before the buffered header
\* and rows are flushed.
CrashInWrite ==
    /\ script \in {"seq", "par"}
    /\ mainpc \in {"write_summary", "write_monthly"}
    /\ IF mainpc = "write_summary"
       THEN /\ summaryStore' = [summaryStore EXCEPT !.exists = TRUE]
            /\ UNCHANGED monthlyStore
       ELSE /\ monthlyStore' = [monthlyStore EXCEPT !.exists = TRUE]
            /\ UNCHANGED summaryStore
    /\ Halt("crashed")
    /\ UNCHANGED <<script, domains, run, ckptFile, durable, processed_set, interrupted,
                   prev_finished, fetched, appended, written, inflightAtInt, lateFetched,
                   latePaged, returned>>

\* The process dies at any point (kill, power loss).
Crash ==
    /\ mainpc # "off"
    /\ Halt("crashed")
    /\ UNCHANGED <<script, domains, run, disk, processed_set, interrupted, prev_finished,
                   fetched, appended, written, inflightAtInt, lateFetched, latePaged,
                   returned>>

\* ------------------------------------ measure_resistance.py (sequential)

\* mutant: the domain is checkpointed before its rows are written
SeqOrderCheckpointFirst == <<"checkpoint", "write_summary", "write_monthly">>

\* the statements of the loop body that follow process_domain, in order
SeqOrder == <<"write_summary", "write_monthly", "checkpoint">>

RECURSIVE NextStage(_, _, _)
\* the stage at position i or later that has something to do, or "loop"
NextStage(order, i, c) ==
    IF i > Len(order) THEN "loop"
    ELSE IF order[i] = "write_monthly" /\ Len(c.m_rows) = 0
         THEN NextStage(order, i + 1, c)
    ELSE order[i]

StageIndex(order, stage) == CHOOSE i \in 1..Len(order) : order[i] = stage

\* the stage that follows `stage`
SeqAfter(stage, c) == NextStage(SeqOrder, StageIndex(SeqOrder, stage) + 1, c)

\* for domain in domains_to_process: ... process_domain(domain)
SeqLoop ==
    /\ script = "seq" /\ mainpc = "loop"
    /\ IF Len(queue) = 0
       THEN /\ Halt("finished")
            /\ UNCHANGED <<fetched>>
       ELSE /\ h' = [h EXCEPT ![MainThread] = Quiet(Begin(Head(queue), FALSE))]
            /\ queue' = Tail(queue)
            /\ mainpc' = "harvest"
            /\ cur' = NoCur
            /\ UNCHANGED <<processed_list, count, results, last_end, fetched>>
    /\ UNCHANGED <<script, domains, run, disk, processed_set, interrupted, prev_finished,
                   appended, written, inflightAtInt, lateFetched, latePaged, returned>>

\* one page request of the inline process_domain call; an exception that
\* leaves process_domain is re-raised by main and ends the process
SeqFetch(resps) ==
    /\ script = "seq" /\ mainpc = "harvest"
    /\ h[MainThread].pc = "attempt"
    /\ Decides(h[MainThread], resps, FALSE)
    /\ LET hr == RunRequest(h[MainThread], resps, 0, FALSE)
           d == hr.domain
       IN  /\ hr.requests <= MaxRequests
           /\ fetched' = fetched \cup {d}
           /\ IF hr.pc = "raised"
              THEN Halt("error")
              ELSE IF hr.pc = "returned"
              THEN /\ cur' = CurOf(d, Returned(hr))
                   /\ mainpc' = NextStage(SeqOrder, 1, CurOf(d, Returned(hr)))
                   /\ h' = [h EXCEPT ![MainThread] = IdleHarvest]
                   /\ UNCHANGED <<processed_list, queue, count, results, last_end>>
              ELSE /\ h' = [h EXCEPT ![MainThread] = Quiet(hr)]
                   /\ UNCHANGED <<mainpc, processed_list, queue, count, cur, results,
                                  last_end>>
    /\ UNCHANGED <<script, domains, run, disk, processed_set, interrupted, prev_finished,
                   appended, written, inflightAtInt, lateFetched, latePaged, returned>>

\* write_csv_row(OUTPUT_SUMMARY_CSV, summary_headers, s_row)
SeqWriteSummary ==
    /\ script = "seq" /\ mainpc = "write_summary"
    /\ LET c == [cur EXCEPT !.summary_done = TRUE]
       IN  /\ summaryStore' = AppendRows(summaryStore, cur.summary_row)
           /\ cur' = c
           /\ mainpc' = SeqAfter("write_summary", c)
           /\ appended' = appended \cup {cur.domain}
           /\ written' = IF WriteDone(c) THEN written \cup {cur.domain} ELSE written
           /\ durable' = IF WriteDone(c) THEN durable \cup {cur.domain} ELSE durable
    /\ UNCHANGED <<script, domains, run, ckptFile, monthlyStore, processed_set,
                   processed_list, queue, count, results, h, interrupted, last_end,
                   prev_finished, fetched, inflightAtInt, lateFetched, latePaged, returned>>

\* one write_csv_row(OUTPUT_MONTHLY_CSV, monthly_headers, m_row)
SeqWriteMonthly ==
    /\ script = "seq" /\ mainpc = "write_monthly"
    /\ LET c == [cur EXCEPT !.m_rows = Tail(@)]
       IN  /\ monthlyStore' = AppendRows(monthlyStore, <<Head(cur.m_rows)>>)
           /\ cur' = c
           /\ mainpc' = IF Len(c.m_rows) > 0 THEN "write_monthly"
                        ELSE SeqAfter("write_monthly", c)
           /\ appended' = appended \cup {cur.domain}
           /\ written' = IF WriteDone(c) THEN written \cup {cur.domain} ELSE written
           /\ durable' = IF WriteDone(c) THEN durable \cup {cur.domain} ELSE durable
    /\ UNCHANGED <<script, domains, run, ckptFile, summaryStore, processed_set,
                   processed_list, queue, count, results, h, interrupted, last_end,
                   prev_finished, fetched, inflightAtInt, lateFetched, latePaged, returned>>

\* checkpoint['processed_domains'].append(domain); save_checkpoint(checkpoint)
SeqCheckpoint ==
    /\ script = "seq" /\ mainpc = "checkpoint"
    /\ processed_list' = Append(processed_list, cur.domain)
    /\ ckptFile' = save_checkpoint(Append(processed_list, cur.domain))
    /\ count' = count + 1
    /\ mainpc' = SeqAfter("checkpoint", cur)
    /\ UNCHANGED <<script, domains, run, summaryStore, monthlyStore, durable,
                   processed_set, queue, cur, results, h, interrupted, hist>>

\* SIGINT in a script without a thread pool: KeyboardInterrupt unwinds the
\* main thread from wherever it is and the process exits
Interrupt ==
    /\ script \in {"seq", "fast"}
    /\ mainpc # "off"
    /\ interrupted' = TRUE
    /\ inflightAtInt' = {h[w].domain : w \in Busy}
    /\ Halt("interrupted")
    /\ UNCHANGED <<script, domains, run, disk, processed_set, prev_finished, fetched,
                   appended, written, lateFetched, latePaged, returned>>

\* ---------------------------------- measure_resistance_v1.py (thread pool)

\* mutant: a harvest that stopped early is handed to main as a failed one
TaskResultCompleteOnly(hr) ==
    IF hr.pc = "raised" \/ hr.why # "completed"
    THEN [domain |-> hr.domain, ok |-> FALSE, rows |-> NoCur]
    ELSE [domain |-> hr.domain, ok |-> TRUE, rows |-> CurOf(hr.domain, Returned(hr))]

\* what worker_task returns: (domain, summary, m_rows), or (domain, None, None)
\* when process_domain raised
TaskResult(hr) ==
    IF hr.pc = "raised"
    THEN [domain |-> hr.domain, ok |-> FALSE, rows |-> NoCur]
    ELSE [domain |-> hr.domain, ok |-> TRUE, rows |-> CurOf(hr.domain, Returned(hr))]

\* thread w after a step of its task: the future completes when
\* process_domain returned or raised
ParSettle(w, hr) ==
    IF hr.pc \in {"returned", "raised"}
    THEN /\ results' = results \cup {TaskResult(hr)}
         /\ h' = [h EXCEPT ![w] = IdleHarvest]
    ELSE /\ h' = [h EXCEPT ![w] = Quiet(hr)]
         /\ UNCHANGED results

\* a pool thread takes the next submitted task: worker_task(d) up to the
\* first urlopen.  The pool runs every submitted task, also while main is
\* unwinding through the executor's shutdown(wait=True).
ParWorkerStart(w) ==
    /\ script = "par" /\ mainpc # "off"
    /\ h[w].pc = "idle"
    /\ Len(queue) > 0
    /\ LET hr == Begin(Head(queue), TRUE)
       IN  /\ ParSettle(w, hr)
           /\ latePaged' = IF interrupted /\ hr.pc = "attempt"
                           THEN latePaged \cup {hr.domain} ELSE latePaged
    /\ queue' = Tail(queue)
    /\ UNCHANGED <<script, domains, run, disk, mainpc, processed_set, processed_list,
                   count, cur, interrupted, last_end, prev_finished, fetched, appended,
                   written, inflightAtInt, lateFetched, returned>>

\* one page request of the task of thread w; history is the history of
\* returns after the step
ParFetchStep(w, resps, dt, history) ==
    /\ script = "par" /\ mainpc # "off"
    /\ h[w].pc = "attempt"
    /\ Decides(h[w], resps, TRUE)
    /\ LET hr == RunRequest(h[w], resps, dt, TRUE)
       IN  /\ hr.requests <= MaxRequests
           /\ ParSettle(w, hr)
           /\ fetched' = fetched \cup {hr.domain}
           /\ lateFetched' = IF interrupted THEN lateFetched \cup {hr.domain}
                             ELSE lateFetched
           /\ latePaged' = IF interrupted /\ hr.requests > h[w].requests
                           THEN latePaged \cup {hr.domain} ELSE latePaged
           /\ returned' = IF history THEN Returns(hr) ELSE returned
    /\ UNCHANGED <<script, domains, run, disk, mainpc, processed_set, processed_list,
                   queue, count, cur, interrupted, last_end, prev_finished, appended,
                   written, inflightAtInt>>

\* the step in a run whose returns are not followed
ParFetch(w, resps, dt) == ParFetchStep(w, resps, dt, FALSE)

\* as_completed yields a future: `if summary:` goes on to write_result_safe,
\* else the domain is logged as skipped
ParTake ==
    /\ script = "par" /\ mainpc = "collect"
    /\ \E r \in results :
         /\ results' = results \ {r}
         /\ IF r.ok
            THEN cur' = r.rows /\ mainpc' = "write_summary"
            ELSE cur' = NoCur /\ mainpc' = "collect"
    /\ UNCHANGED <<script, domains, run, disk, processed_set, processed_list, queue,
                   count, h, interrupted, hist>>

\* after write_result_safe: processed_list.append(domain); count += 1, and
\* the periodic save when count is a multiple of the interval
ParAfterWrite(d) ==
    /\ processed_list' = Append(processed_list, d)
    /\ count' = count + 1
    /\ mainpc' = IF (count + 1) % SaveEveryPar = 0 THEN "save" ELSE "collect"

\* write_result_safe: write_csv_row(OUTPUT_SUMMARY_CSV, ...) under csv_lock
ParWriteSummary ==
    /\ script = "par" /\ mainpc = "write_summary"
    /\ LET c == [cur EXCEPT !.summary_done = TRUE]
       IN  /\ summaryStore' = AppendRows(summaryStore, cur.summary_row)
           /\ cur' = c
           /\ appended' = appended \cup {cur.domain}
           /\ written' = IF WriteDone(c) THEN written \cup {cur.domain} ELSE written
           /\ durable' = IF WriteDone(c) THEN durable \cup {cur.domain} ELSE durable
           /\ IF Len(c.m_rows) > 0
              THEN mainpc' = "write_monthly" /\ UNCHANGED <<processed_list, count>>
              ELSE ParAfterWrite(cur.domain)
    /\ UNCHANGED <<script, domains, run, ckptFile, monthlyStore, processed_set, queue,
                   results, h, interrupted, last_end, prev_finished, fetched, inflightAtInt,
                   lateFetched, latePaged, returned>>

\* write_result_safe: write_monthly_rows(OUTPUT_MONTHLY_CSV, ...) under csv_lock
ParWriteMonthly ==
    /\ script = "par" /\ mainpc = "write_monthly"
    /\ monthlyStore' = AppendRows(monthlyStore, cur.m_rows)
    /\ cur' = [cur EXCEPT !.m_rows = << >>]
    /\ appended' = appended \cup {cur.domain}
    /\ written' = written \cup {cur.domain}
    /\ durable' = durable \cup {cur.domain}
    /\ ParAfterWrite(cur.domain)
    /\ UNCHANGED <<script, domains, run, ckptFile, summaryStore, processed_set, queue,
                   results, h, interrupted, last_end, prev_finished, fetched, inflightAtInt,
                   lateFetched, latePaged, returned>>

\* save_checkpoint({'processed_domains': processed_list}) inside the loop
ParSave ==
    /\ script = "par" /\ mainpc = "save"
    /\ ckptFile' = save_checkpoint(processed_list)
    /\ mainpc' = "collect"
    /\ UNCHANGED <<script, domains, run, summaryStore, monthlyStore, durable,
                   processed_set, processed_list, queue, count, cur, results, h,
                   interrupted, hist>>

\* every future was yielded: the executor is left and the final
\* save_checkpoint runs
ParFinalSave ==
    /\ script = "par" /\ mainpc = "collect"
    /\ Len(queue) = 0 /\ Busy = {} /\ results = {}
    /\ ckptFile' = save_checkpoint(processed_list)
    /\ Halt("finished")
    /\ UNCHANGED <<script, domains, run, summaryStore, monthlyStore, durable,
                   processed_set, interrupted, prev_finished, fetched, appended, written,
                   inflightAtInt, lateFetched, latePaged, returned>>

\* SIGINT: KeyboardInterrupt is raised in the main thread, which no handler
\* catches; leaving the `with` block waits in shutdown(wait=True)
ParInterrupt ==
    /\ script = "par" /\ mainpc \notin {"off", "drain"}
    /\ ~interrupted
    /\ interrupted' = TRUE
    /\ inflightAtInt' = {h[w].domain : w \in Busy}
    /\ mainpc' = "drain"
    /\ cur' = NoCur
    /\ UNCHANGED <<script, domains, run, disk, processed_set, processed_list, queue,
                   count, results, h, last_end, prev_finished, fetched, appended, written,
                   lateFetched, latePaged, returned>>

\* the pool threads are joined and the process ends with the traceback
ParDrained ==
    /\ script = "par" /\ mainpc = "drain"
    /\ Len(queue) = 0 /\ Busy = {}
    /\ Halt("interrupted")
    /\ UNCHANGED <<script, domains, run, disk, processed_set, interrupted, prev_finished,
                   fetched, appended, written, inflightAtInt, lateFetched, latePaged,
                   returned>>

\* ------------------------------------------------------------ fast_scan.py

STATUSCODE == <<"s", "t", "a", "t", "u", "s", "c", "o", "d", "e">>

ZeroFast == [k \in {"2xx", "3xx", "4xx", "403", "total"} |-> 0]

\* the counters one status code increments in the fast scan (an elif chain)
FastCodeKeys(code) ==
    (IF 200 <= code /\ code < 300 THEN {"2xx"}
     ELSE IF 300 <= code /\ code < 400 THEN {"3xx"}
     ELSE IF 400 <= code /\ code < 500
          THEN {"4xx"} \cup (IF code = 403 THEN {"403"} ELSE {})
     ELSE {})
    \cup {"total"}

\* one iteration of `for row in data:`; row[0].isdigit() raises on None,
\* int(row[0]) on a digit that is not a decimal digit
FastApplyRow(acc, row) ==
    IF acc.raised THEN acc
    ELSE IF Len(row) # 1 THEN acc
    ELSE IF row[1].t # "str" THEN [acc EXCEPT !.raised = TRUE]
    ELSE IF ~isdigit(row[1].v) THEN acc
    ELSE IF IntRaises(row[1].v) THEN [acc EXCEPT !.raised = TRUE]
    ELSE [acc EXCEPT !.stats = Bump(@, FastCodeKeys(int(row[1].v)))]

RECURSIVE FastApplyRows(_, _)
FastApplyRows(acc, rows) ==
    IF Len(rows) = 0 THEN acc
    ELSE FastApplyRows(FastApplyRow(acc, Head(rows)), Tail(rows))

\* scan_domain_fast: one request, no retry; every exception is logged and the
\* stats counted so far are returned
scan_domain_fast(resp) ==
    IF resp.kind # "list" \/ Len(resp.rows) = 0 THEN ZeroFast
    ELSE IF Len(resp.rows[1]) = 0 THEN ZeroFast          \* data[0][0]: IndexError
    ELSE LET data == IF resp.rows[1][1] = Str(STATUSCODE)
                     THEN Tail(resp.rows) ELSE resp.rows
         IN  FastApplyRows([raised |-> FALSE, stats |-> ZeroFast], data).stats

\* the row main writes for the stats of domain d
FastRow(d, st) ==
    [kind |-> "row", domain |-> d, total_sample |-> st["total"],
     count_2xx |-> st["2xx"], count_3xx |-> st["3xx"], count_4xx |-> st["4xx"],
     count_403 |-> st["403"],
     share_403 |-> IF st["total"] > 0 THEN Fmt4(Frac(st["403"], st["total"])) ELSE 0]

\* a page of the fast scan: header, one capture, resume key
FastPage == Page(<< <<Str(STATUSCODE)>>, <<Str(S403)>>, <<Str(T1)>> >>)

\* the answers followed in a fast scan run
FastResponses == {NetErr, FastPage}

\* for d in domains: if d in processed_set: continue
FastLoop ==
    /\ script = "fast" /\ mainpc = "loop"
    /\ IF Len(queue) = 0
       THEN mainpc' = "final_save" /\ UNCHANGED <<queue, cur>>
       ELSE /\ queue' = Tail(queue)
            /\ IF Head(queue) \in processed_set
               THEN UNCHANGED <<mainpc, cur>>
               ELSE /\ mainpc' = "scan"
                    /\ cur' = [NoCur EXCEPT !.domain = Head(queue)]
    /\ UNCHANGED <<script, domains, run, disk, processed_set, processed_list, count,
                   results, h, interrupted, hist>>

\* stats = scan_domain_fast(d)
FastScan(resp) ==
    /\ script = "fast" /\ mainpc = "scan"
    /\ cur' = [cur EXCEPT !.summary_row = <<FastRow(cur.domain, scan_domain_fast(resp))>>]
    /\ mainpc' = "write"
    /\ fetched' = fetched \cup {cur.domain}
    /\ UNCHANGED <<script, domains, run, disk, processed_set, processed_list, queue,
                   count, results, h, interrupted, last_end, prev_finished, appended,
                   written, inflightAtInt, lateFetched, latePaged, returned>>

\* writer.writerow(...); f.flush(); processed.append(d); count += 1
FastWrite ==
    /\ script = "fast" /\ mainpc = "write"
    /\ summaryStore' = [summaryStore EXCEPT !.rows = @ \o cur.summary_row]
    /\ processed_list' = Append(processed_list, cur.domain)
    /\ count' = count + 1
    /\ mainpc' = IF (count + 1) % SaveEveryFast = 0 THEN "save" ELSE "loop"
    /\ cur' = NoCur
    /\ appended' = appended \cup {cur.domain}
    /\ written' = written \cup {cur.domain}
    /\ durable' = durable \cup {cur.domain}
    /\ UNCHANGED <<script, domains, run, ckptFile, monthlyStore, processed_set, queue,
                   results, h, interrupted, last_end, prev_finished, fetched,
                   inflightAtInt, lateFetched, latePaged, returned>>

\* save_checkpoint(processed) inside the loop
FastSave ==
    /\ script = "fast" /\ mainpc = "save"
    /\ ckptFile' = save_checkpoint(processed_list)
    /\ mainpc' = "loop"
    /\ UNCHANGED <<script, domains, run, summaryStore, monthlyStore, durable,
                   processed_set, processed_list, queue, count, cur, results, h,
                   interrupted, hist>>

\* mutant: the run ends without the save that follows the loop
FastFinalNoSave ==
    /\ script = "fast" /\ mainpc = "final_save"
    /\ Halt("finished")
    /\ UNCHANGED <<script, domains, run, disk, processed_set, interrupted,
                   prev_finished, fetched, appended, written, inflightAtInt, lateFetched,
                   latePaged, returned>>

\* save_checkpoint(processed) after the loop
FastFinalSave ==
    /\ script = "fast" /\ mainpc = "final_save"
    /\ ckptFile' = save_checkpoint(processed_list)
    /\ Halt("finished")
    /\ UNCHANGED <<script, domains, run, summaryStore, monthlyStore, durable,
                   processed_set, interrupted, prev_finished, fetched, appended, written,
                   inflightAtInt, lateFetched, latePaged, returned>>

\* ------------------------------------------------------- coordinator runs

Next ==
    \/ Start
    \/ FastLoadFails
    \/ Crash
    \/ CrashInSave
    \/ CrashInWrite
    \/ Interrupt
    \/ SeqLoop
    \/ \E resps \in CoordOutcomes : SeqFetch(resps)
    \/ SeqWriteSummary
    \/ SeqWriteMonthly
    \/ SeqCheckpoint
    \/ \E w \in Threads : ParWorkerStart(w)
    \/ \E w \in Threads, resps \in CoordOutcomes, dt \in CoordTicks : ParFetch(w, resps, dt)
    \/ ParTake
    \/ ParWriteSummary
    \/ ParWriteMonthly
    \/ ParSave
    \/ ParFinalSave
    \/ ParInterrupt
    \/ ParDrained
    \/ FastLoop
    \/ \E resp \in FastResponses : FastScan(resp)
    \/ FastWrite
    \/ FastSave
    \/ FastFinalSave

Spec == Init /\ [][Next]_vars

\* ------------------------------------------ runs with failing saves
\* what a save_checkpoint call that meets an I/O error leaves on disk: the
\* file as it was (open raised) or truncated (the write raised)
FailedSaveFiles == {ckptFile, TornCheckpoint}

\* mutant: the error of the save is not caught and ends the process
SaveFailsAborting ==
    /\ AtSave /\ script \in {"seq", "par"}
    /\ ckptFile' \in FailedSaveFiles
    /\ Halt("save_error")
    /\ UNCHANGED <<script, domains, run, summaryStore, monthlyStore, durable,
                   processed_set, interrupted, prev_finished, fetched, appended, written,
                   inflightAtInt, lateFetched, latePaged, returned>>

\* A save_checkpoint call of measure_resistance.py or
\* measure_resistance_v1.py meets an I/O error: the handler logs it and the
\* caller goes on as after a save.
SaveFails ==
    /\ AtSave /\ script \in {"seq", "par"}
    /\ ckptFile' \in FailedSaveFiles
    /\ IF script = "seq"
       THEN /\ processed_list' = Append(processed_list, cur.domain)
            /\ count' = count + 1
            /\ mainpc' = SeqAfter("checkpoint", cur)
            /\ UNCHANGED <<queue, cur, results, h, last_end>>
       ELSE IF mainpc = "save"
       THEN /\ mainpc' = "collect"
            /\ UNCHANGED <<processed_list, queue, count, cur, results, h, last_end>>
       ELSE Halt("finished")
    /\ UNCHANGED <<script, domains, run, summaryStore, monthlyStore, durable,
                   processed_set, interrupted, prev_finished, fetched, appended, written,
                   inflightAtInt, lateFetched, latePaged, returned>>

\* A save_checkpoint call of fast_scan.py meets an I/O error: it has no
\* handler, the exception leaves main and the process ends.
FastSaveFails ==
    /\ AtSave /\ script = "fast"
    /\ ckptFile' \in FailedSaveFiles
    /\ Halt("save_error")
    /\ UNCHANGED <<script, domains, run, summaryStore, monthlyStore, durable,
                   processed_set, interrupted, prev_finished, fetched, appended, written,
                   inflightAtInt, lateFetched, latePaged, returned>>

\* ------------------------------ thread-pool runs that end on their own
\* Runs of measure_resistance_v1.py without a signal or a crash, on answers
\* that stop a harvest in each of the ways process_domain has, with the
\* history of what each harvest returned.
PartialOutcomes == {AllFail, <<PageKeyOnly>>, <<PageMore2>>, <<PageLast>>, <<PageEmptyRow>>}

InitPartial == Init /\ script = "par"

NextPartial ==
    \/ Start
    \/ \E w \in Threads : ParWorkerStart(w)
    \/ \E w \in Threads, resps \in PartialOutcomes, dt \in CoordTicks :
          ParFetchStep(w, resps, dt, TRUE)
    \/ ParTake
    \/ ParWriteSummary
    \/ ParWriteMonthly
    \/ ParSave
    \/ ParFinalSave

SpecPartial == InitPartial /\ [][NextPartial]_vars

NextSaveFault ==
    \/ Next
    \/ SaveFails
    \/ FastSaveFails

SpecSaveFault == Init /\ [][NextSaveFault]_vars

\* ------------------------------------------------- one harvest at a time
\* process_domain called MaxHarvests times on one thread, every urlopen a
\* step of its own: script "par" runs the harvester with limits, "seq" the
\* one without.


\* a page whose only row is empty, followed by the resume key T1
PageEmptyRowMore == Page(<< << >>, <<Str(T1)>> >>)

\* a page whose last row is a 14-digit timestamp without a status field
PageShortLast == Page(<< <<Str(TS_JAN), Str(S200)>>, <<Str(TS_JAN)>> >>)
\* a JSON array without rows
PageNoRows == Page(<< >>)

HarvestResponses ==
    {NetErr, BadJson, EmptyBody, PageNoRows, PageMore, PageMore2, PageLast,
     PageEmptyRow, PageEmptyRowMore, PageShortLast}

HarvestTicks == {0, 1}

InitHarvest ==
    /\ script \in {"seq", "par"}
    /\ domains = SortedDomains
    /\ ckptFile = NoCheckpoint
    /\ summaryStore = NoFile
    /\ monthlyStore = NoFile
    /\ run = 1
    /\ mainpc = "harvest"
    /\ processed_set = {}
    /\ processed_list = << >>
    /\ queue = << >>
    /\ count = 0
    /\ cur = NoCur
    /\ results = {}
    /\ h = [w \in Threads |-> IdleHarvest]
    /\ interrupted = FALSE
    /\ last_end = "running"
    /\ prev_finished = FALSE
    /\ fetched = {}
    /\ appended = {}
    /\ written = {}
    /\ durable = {}
    /\ inflightAtInt = {}
    /\ lateFetched = {}
    /\ latePaged = {}
    /\ returned = {}

Limited == script = "par"

\* process_domain(d) is called
HarvestBegin(d) ==
    /\ h[MainThread].pc \in {"idle", "returned", "raised"}
    /\ count < MaxHarvests
    /\ count' = count + 1
    /\ h' = [h EXCEPT ![MainThread] = Begin(d, Limited)]
    /\ returned' = IF Begin(d, Limited).pc = "returned"
                   THEN returned \cup {[value |-> Returned(Begin(d, Limited)),
                                        why |-> Begin(d, Limited).why]}
                   ELSE returned
    /\ UNCHANGED <<script, domains, run, disk, mainpc, processed_set, processed_list,
                   queue, cur, results, interrupted, last_end, prev_finished, fetched,
                   appended, written, inflightAtInt, lateFetched, latePaged>>

\* one urlopen answered by resp after dt clock ticks
HarvestAttempt(resp, dt) ==
    /\ h[MainThread].pc = "attempt"
    /\ h[MainThread].attempts < MaxAttempts
    /\ LET hr == Step(h[MainThread], resp, IF Limited THEN dt ELSE 0, Limited)
       IN  /\ hr.requests <= MaxRequests
           /\ h' = [h EXCEPT ![MainThread] = hr]
           /\ returned' = IF hr.pc = "returned"
                          THEN returned \cup {[value |-> Returned(hr), why |-> hr.why]}
                          ELSE returned
    /\ UNCHANGED <<script, domains, run, disk, mainpc, processed_set, processed_list,
                   queue, count, cur, results, interrupted, last_end, prev_finished,
                   fetched, appended, written, inflightAtInt, lateFetched, latePaged>>

NextHarvest ==
    \/ \E d \in Domains : HarvestBegin(d)
    \/ \E resp \in HarvestResponses, dt \in HarvestTicks : HarvestAttempt(resp, dt)

SpecHarvest == InitHarvest /\ [][NextHarvest]_vars

\* ------------------------------------------------- the two harvesters
\* process_domain of measure_resistance_v1.py (thread LimitedSide) and of
\* measure_resistance.py (thread UnlimitedSide) called on the same domain
\* and given the same answer to each urlopen, for as long as both are in
\* their retry loop.

LimitedSide == 1
UnlimitedSide == 2

InitPair == InitHarvest /\ script = "par"

PairBegin(d) ==
    /\ \A w \in {LimitedSide, UnlimitedSide} : h[w].pc \in {"idle", "returned", "raised"}
    /\ count < MaxHarvests
    /\ count' = count + 1
    /\ h' = [h EXCEPT ![LimitedSide] = Begin(d, TRUE),
                      ![UnlimitedSide] = Begin(d, FALSE)]
    /\ UNCHANGED <<script, domains, run, disk, mainpc, processed_set, processed_list,
                   queue, cur, results, interrupted, hist>>

PairAttempt(resp, dt) ==
    /\ \A w \in {LimitedSide, UnlimitedSide} :
          h[w].pc = "attempt" /\ h[w].attempts < MaxAttempts
    /\ LET a == Step(h[LimitedSide], resp, dt, TRUE)
           b == Step(h[UnlimitedSide], resp, 0, FALSE)
       IN  /\ a.requests <= MaxRequests /\ b.requests <= MaxRequests
           /\ h' = [h EXCEPT ![LimitedSide] = a, ![UnlimitedSide] = b]
    /\ UNCHANGED <<script, domains, run, disk, mainpc, processed_set, processed_list,
                   queue, count, cur, results, interrupted, hist>>

NextPair ==
    \/ \E d \in Domains : PairBegin(d)
    \/ \E resp \in HarvestResponses, dt \in HarvestTicks : PairAttempt(resp, dt)

SpecPair == InitPair /\ [][NextPair]_vars

\* ------------------------------------------------ harvests without end
\* One process_domain call followed for ever.  The history fields are kept
\* within bounds (the attempt counter modulo MaxAttempts, the request
\* counter up to MaxRequests, the last MaxRequests tokens sent), so that a
\* loop of the code that never ends is a cycle of states.  Every urlopen
\* call is answered or times out (timeout=180), hence the weak fairness of
\* the step.

\* a page that holds the resume key T2 only
PageKeyOnly2 == Page(<< <<Str(T2)>> >>)

LiveResponses == {NetErr, BadJson, EmptyBody, PageKeyOnly, PageKeyOnly2, PageLast}

\* hr with its history fields within bounds
Bounded(hr) ==
    [hr EXCEPT !.attempts = IF @ > MaxAttempts THEN 1 ELSE @,
               !.requests = Min(@, MaxRequests),
               !.sent = IF Len(@) > MaxRequests THEN SubSeq(@, 2, Len(@)) ELSE @]

LiveBegin ==
    /\ h[MainThread].pc = "idle"
    /\ h' = [h EXCEPT ![MainThread] = Begin(1, Limited)]
    /\ UNCHANGED <<script, domains, run, disk, mainpc, processed_set, processed_list,
                   queue, count, cur, results, interrupted, hist>>

LiveAttempt(resp, dt) ==
    /\ h[MainThread].pc = "attempt"
    /\ h' = [h EXCEPT ![MainThread] =
                Bounded(Step(@, resp, IF Limited THEN dt ELSE 0, Limited))]
    /\ UNCHANGED <<script, domains, run, disk, mainpc, processed_set, processed_list,
                   queue, count, cur, results, interrupted, hist>>

NextLive ==
    \/ LiveBegin
    \/ \E resp \in LiveResponses, dt \in HarvestTicks : LiveAttempt(resp, dt)

SpecLive == InitHarvest /\ [][NextLive]_vars /\ WF_vars(NextLive)

\* ------------------------------------------- harvests of pages with header
\* The index API echoes the field names as the first row of a page.

\* the column-header row
HeaderRow == <<Str(TIMESTAMP), Str(STATUSCODE)>>

\* a page that holds the header row only
PageHeaderOnly == Page(<<HeaderRow>>)
\* the header row and one capture
PageHeaderLast == Page(<<HeaderRow, <<Str(TS_JAN), Str(S200)>> >>)
\* the header row, one capture and the resume key T1
PageHeaderMore == Page(<<HeaderRow, <<Str(TS_FEB), Str(S403)>>, <<Str(T1)>> >>)

HeaderResponses == {NetErr, EmptyBody, PageHeaderOnly, PageHeaderLast, PageHeaderMore}

NextHeader ==
    \/ \E d \in Domains : HarvestBegin(d)
    \/ \E resp \in HeaderResponses, dt \in HarvestTicks : HarvestAttempt(resp, dt)

SpecHeader == InitHarvest /\ [][NextHeader]_vars

\* ------------------------------------------------- the stats update loop
\* The loop `for row in rows_to_process:` of process_domain (script "par")
\* and `for row in data:` of scan_domain_fast (script "fast"), one iteration
\* a step, on rows of every shape the index API can send.
\*   pc = "rows"  inside the loop

S100 == <<"1", "0", "0">>
S301 == <<"3", "0", "1">>
S404 == <<"4", "0", "4">>
S410 == <<"4", "1", "0">>
S429 == <<"4", "2", "9">>
S500 == <<"5", "0", "0">>
\* the status of a capture without a response code
SDASH == <<"-">>
\* digits that are not all decimal digits
SSUP == <<"2", "0", SuperscriptTwo>>
\* a timestamp cut after the year
TS_SHORT == <<"2", "0", "2", "4">>

\* rows [timestamp, statuscode] of process_domain
AggRows ==
    {<<Str(TS_JAN), Str(S200)>>, <<Str(TS_JAN), Str(S403)>>,
     <<Str(TS_FEB), Str(S404)>>, <<Str(TS_FEB), Str(S410)>>,
     <<Str(TS_JAN), Str(S429)>>, <<Str(TS_FEB), Str(S301)>>,
     <<Str(TS_FEB), Str(S500)>>, <<Str(TS_JAN), Str(S100)>>,
     <<Str(TS_FEB), Str(SDASH)>>, <<Str(TS_SHORT), Str(S200)>>,
     <<Str(TS_JAN)>>, << >>,
     <<Null, Str(S200)>>, <<Str(TS_JAN), Null>>, <<Str(TS_JAN), Str(SSUP)>>}

\* rows [statuscode] of scan_domain_fast
FastRows ==
    {<<Str(S200)>>, <<Str(S301)>>, <<Str(S403)>>, <<Str(S404)>>, <<Str(S500)>>,
     <<Str(S100)>>, <<Str(SDASH)>>, <<Str(T1)>>, <<Str(SSUP)>>, <<Null>>, << >>}

InitAgg ==
    /\ script \in {"par", "fast"}
    /\ domains = SortedDomains
    /\ ckptFile = NoCheckpoint
    /\ summaryStore = NoFile
    /\ monthlyStore = NoFile
    /\ run = 1
    /\ mainpc = "harvest"
    /\ processed_set = {}
    /\ processed_list = << >>
    /\ queue = << >>
    /\ count = 0
    /\ cur = NoCur
    /\ results = {}
    /\ h = [w \in Threads |->
             IF w = MainThread
             THEN [NewHarvest(1) EXCEPT !.pc = "rows",
                                        !.stats = IF script = "fast" THEN ZeroFast
                                                  ELSE ZeroStats]
             ELSE IdleHarvest]
    /\ interrupted = FALSE
    /\ last_end = "running"
    /\ prev_finished = FALSE
    /\ fetched = {}
    /\ appended = {}
    /\ written = {}
    /\ durable = {}
    /\ inflightAtInt = {}
    /\ lateFetched = {}
    /\ latePaged = {}
    /\ returned = {}

\* the harvest after one iteration that left the accumulator acc
AfterRow(hr, acc) ==
    IF acc.raised THEN [hr EXCEPT !.pc = "raised", !.why = "exception"]
    ELSE [hr EXCEPT !.stats = acc.stats, !.monthly = acc.monthly]

\* one iteration of the stats update loop of process_domain
AggRow(row) ==
    /\ script = "par"
    /\ h[MainThread].pc = "rows"
    /\ count < MaxRows
    /\ count' = count + 1
    /\ h' = [h EXCEPT ![MainThread] =
                AfterRow(@, ApplyRow([raised |-> FALSE, stats |-> @.stats,
                                      monthly |-> @.monthly], row))]
    /\ UNCHANGED <<script, domains, run, disk, mainpc, processed_set, processed_list,
                   queue, cur, results, interrupted, hist>>

\* one iteration of the loop of scan_domain_fast; an exception ends the loop
\* and the stats counted so far are returned
FastAggRow(row) ==
    /\ script = "fast"
    /\ h[MainThread].pc = "rows"
    /\ count < MaxRows
    /\ count' = count + 1
    /\ h' = [h EXCEPT ![MainThread] =
                LET acc == FastApplyRow([raised |-> FALSE, stats |-> @.stats], row)
                IN  IF acc.raised THEN [@ EXCEPT !.pc = "returned", !.why = "exception"]
                    ELSE [@ EXCEPT !.stats = acc.stats]]
    /\ UNCHANGED <<script, domains, run, disk, mainpc, processed_set, processed_list,
                   queue, cur, results, interrupted, hist>>

NextAgg ==
    \/ \E row \in AggRows : AggRow(row)
    \/ \E row \in FastRows : FastAggRow(row)

SpecAgg == InitAgg /\ [][NextAgg]_vars

\* ================================================================ claims

CkptDomains == IF ckptFile.exists /\ ckptFile.ok THEN Range(ckptFile.list) ELSE {}

SummaryRowsOf(d) ==
    {i \in 1..Len(summaryStore.rows) :
        summaryStore.rows[i].kind = "row" /\ summaryStore.rows[i].domain = d}

MonthlyRowsFor(d, m) ==
    {i \in 1..Len(monthlyStore.rows) :
        /\ monthlyStore.rows[i].kind = "row"
        /\ monthlyStore.rows[i].domain = d
        /\ monthlyStore.rows[i].month = m}

MonthsInStore ==
    {monthlyStore.rows[i].month :
        i \in {j \in 1..Len(monthlyStore.rows) : monthlyStore.rows[j].kind = "row"}}

\* C1 (as claimed): in every state, a domain is in the persisted checkpoint
\* if and only if its summary row and all its monthly rows are written.
C1_CheckpointIffWritten ==
    \A d \in Domains : (d \in CkptDomains) <=> (d \in durable)

\* C2 (as claimed): over all runs on the same disk, a domain has at most
\* one row in the summary store and at most one row per month in the
\* monthly store.
C2_AtMostOneRow ==
    script \in {"seq", "par"} =>
        \A d \in Domains :
            /\ Cardinality(SummaryRowsOf(d)) <= 1
            /\ \A m \in MonthsInStore : Cardinality(MonthlyRowsFor(d, m)) <= 1

\* C3 (as claimed): when the process has ended on an interruption, the
\* persisted checkpoint holds every domain whose rows it wrote.
C3_InterruptSavesWritten ==
    last_end = "interrupted" => written \subseteq CkptDomains

\* C4 (as claimed): every domain fetched after the interruption was in
\* flight when the interruption arrived.
C4_NoNewDomainAfterInterrupt == lateFetched \subseteq inflightAtInt

\* C5 (as claimed): a harvester in flight when the interruption arrived
\* issues no further page request.
C5_NoPageAfterInterrupt == inflightAtInt \cap latePaged = {}

\* C6 (as claimed): a page request is attempted at most MAX_RETRIES + 1
\* times, whatever the failures are.
C6_AttemptsBounded == h[MainThread].attempts <= MAX_RETRIES + 1

\* C7: a domain of the checkpoint loaded at the start of a run is neither
\* fetched nor given a row during that run.
C7_LoadedSkipped ==
    \A d \in processed_set : d \notin fetched /\ d \notin appended

\* a run that loaded a checkpoint with a domain in it and harvested and
\* wrote another domain
C7_Witness ==
    /\ processed_set # {}
    /\ fetched # {}
    /\ appended # {}
    /\ last_end = "finished"

\* C8 (as claimed): a run that follows a finished run fetches nothing and
\* appends nothing.
C8_RerunDoesNothing == prev_finished => fetched = {} /\ appended = {}

\* C9: for a domain of the processed list, in memory or persisted, a
\* Result Writer call has returned: its summary row and all its monthly
\* rows are on disk.
C9_ProcessedAfterWrite ==
    \A d \in Range(processed_list) \cup CkptDomains :
        d \in durable /\ SummaryRowsOf(d) # {}

\* a domain was added to the processed list by the running process, which
\* has a persisted checkpoint too
C9_Witness ==
    /\ mainpc # "off"
    /\ \E d \in Range(processed_list) : d \notin processed_set /\ d \in CkptDomains

\* C10 (as claimed): two harvests that stopped for different reasons never
\* return the same result.
C10_ReasonDistinguishable ==
    \A a \in returned : \A b \in returned : a.why # b.why => a.value # b.value

\* C11 (as claimed): the harvester stops when a page shows a resume token it
\* has seen before, so no token is sent with two requests of one harvest.
C11_StopsOnRepeatedToken ==
    LET s == h[MainThread].sent
    IN  \A i \in 1..Len(s) : \A j \in 1..Len(s) :
            (i < j /\ Truthy(s[i])) => s[i] # s[j]

\* the page resp ends with the token that the current request was sent with
SameToken(resp) ==
    /\ resp.kind = "list"
    /\ Truthy(DetectKey(resp.rows))
    /\ DetectKey(resp.rows) = h[MainThread].resume_key

\* C12 (as claimed): when a fetched page ends with the token it was fetched
\* with, the harvest finalizes in that step and builds no further request.
C12_SameTokenFinalizes ==
    [][\A resp \in HarvestResponses : \A dt \in HarvestTicks :
          (SameToken(resp) /\ HarvestAttempt(resp, dt)) =>
              /\ h'[MainThread].pc = "returned"
              /\ h'[MainThread].requests = h[MainThread].requests]_vars

\* the counter k of a counter record, 0 when the record has no such counter
Counter(st, k) == IF k \in DOMAIN st THEN st[k] ELSE 0

\* C13 (as claimed): after any sequence of records, total is the sum of the
\* class counters 2xx, 3xx, 4xx and 5xx.
C13_TotalIsClassSum ==
    LET st == h[MainThread].stats
    IN  st["total"] = Counter(st, "2xx") + Counter(st, "3xx")
                      + Counter(st, "4xx") + Counter(st, "5xx")

StatusCodes == 0..MaxCode

\* C14: the 403 counter is incremented exactly for code 403 and the 404
\* counter exactly for codes 404 and 410, each together with the 4xx counter;
\* so 403 + 404 <= 4xx in the domain stats and in every monthly bucket.
C14_SubsetOf4xx ==
    LET st == h[MainThread].stats
        mo == h[MainThread].monthly
    IN  /\ Counter(st, "403") + Counter(st, "404") <= st["4xx"]
        /\ \A m \in DOMAIN mo : mo[m]["403"] + mo[m]["404"] <= mo[m]["4xx"]
        /\ \A code \in StatusCodes :
              /\ ("403" \in CodeKeys(code)) <=> (code = 403)
              /\ ("404" \in CodeKeys(code)) <=> (code \in {404, 410})
              /\ (CodeKeys(code) \cap {"403", "404"} # {}) => ("4xx" \in CodeKeys(code))

\* 403, 404/410 and another 4xx record were counted, in two months
C14_Witness ==
    LET st == h[MainThread].stats
    IN  /\ script = "par"
        /\ st["403"] > 0 /\ st["404"] > 0
        /\ st["4xx"] > st["403"] + st["404"]
        /\ Cardinality(DOMAIN h[MainThread].monthly) >= 2

RECURSIVE SumOver(_, _, _)
\* the sum of counter k over the buckets ms of monthly
SumOver(monthly, ms, k) ==
    IF ms = {} THEN 0
    ELSE LET m == CHOOSE x \in ms : TRUE
         IN  monthly[m][k] + SumOver(monthly, ms \ {m}, k)

\* the row is counted: two fields, a timestamp of 6 characters or more and a
\* decimal status
Counted(row) ==
    /\ Len(row) >= 2
    /\ row[1].t = "str" /\ Len(row[1].v) >= 6
    /\ row[2].t = "str" /\ isdigit(row[2].v) /\ ~IntRaises(row[2].v)

\* YYYY-MM of a timestamp: its first four characters, "-", the next two
YearMonth(ts) == SubSeq(ts, 1, 4) \o <<"-">> \o SubSeq(ts, 5, 6)

\* C15: the sum of each counter over the monthly buckets is the domain
\* counter, and a counted record changes one bucket only, the one of its
\* YYYY-MM, by exactly what it adds to the domain stats.
C15_MonthlyMirrorsStats ==
    LET st == h[MainThread].stats
        mo == h[MainThread].monthly
    IN  script = "par" =>
        /\ \A k \in MonthKeys : SumOver(mo, DOMAIN mo, k) = st[k]
        /\ \A row \in AggRows : Counted(row) =>
              LET r == ApplyRow([raised |-> FALSE, stats |-> st, monthly |-> mo], row)
                  mk == YearMonth(row[1].v)
                  before == IF mk \in DOMAIN mo THEN mo[mk] ELSE ZeroMonth
              IN  /\ ~r.raised
                  /\ DOMAIN r.monthly = DOMAIN mo \cup {mk}
                  /\ \A m \in DOMAIN mo \ {mk} : r.monthly[m] = mo[m]
                  /\ \A k \in MonthKeys :
                        r.stats[k] - st[k] = r.monthly[mk][k] - before[k]
                  /\ r.stats["total"] = st["total"] + 1

\* records of two months were counted, more than one in one of them
C15_Witness ==
    /\ script = "par"
    /\ Cardinality(DOMAIN h[MainThread].monthly) >= 2
    /\ h[MainThread].stats["total"] >= 3
    /\ h[MainThread].stats["4xx"] >= 1

\* C16 (as claimed): a skipped record is counted nowhere, so every monthly
\* bucket holds a counted record.
C16_NoEmptyBucket ==
    \A m \in DOMAIN h[MainThread].monthly : h[MainThread].monthly[m]["total"] > 0

\* C17 (as claimed): no row of a page makes process_domain raise.
C17_BadRowNeverFails == h[MainThread].pc # "raised"

\* C18 (as claimed): no process ends on the failure of a domain; it goes on
\* with the other domains up to its final checkpoint save.
C18_FailureDoesNotAbort == last_end # "error"

\* C19, the stats: the attempts of a request that fail, the last one
\* included, leave the stats and the monthly buckets as they were when the
\* request was built, and the harvest that gives up returns them.
C19_PartialStatsKept ==
    [][(/\ h[MainThread].pc = "attempt"
        /\ h'[MainThread].requests = h[MainThread].requests
        /\ h'[MainThread].pc = "attempt" \/ h'[MainThread].why = "fetch_failed")
       => /\ h'[MainThread].stats = h[MainThread].stats
          /\ h'[MainThread].monthly = h[MainThread].monthly
          /\ h'[MainThread].why = "fetch_failed" =>
                /\ h'[MainThread].pc = "returned"
                /\ h[MainThread].retries = MAX_RETRIES
                /\ [value |-> Returned(h[MainThread]), why |-> "fetch_failed"]
                       \in returned']_vars

\* C19 (as claimed): the result of a harvest that gave up on a page says so:
\* it differs from every result of a harvest that ended otherwise.
C19_FetchFailedInResult ==
    \A e \in returned : \A f \in returned :
        (e.why = "fetch_failed" /\ f.why # "fetch_failed") => e.value # f.value

\* C20: the harvester with limits folds at most MaxPagesCfg pages, and is
\* inside a page request only with fewer pages folded.
C20_PageLimit ==
    Limited =>
        /\ h[MainThread].pages_processed <= MaxPagesCfg
        /\ h[MainThread].pc = "attempt" => h[MainThread].pages_processed < MaxPagesCfg

\* a harvest was ended by the page limit after MaxPagesCfg pages
C20_Witness ==
    /\ Limited
    /\ h[MainThread].pc = "returned"
    /\ h[MainThread].why = "page_limit"
    /\ h[MainThread].pages_processed = MaxPagesCfg

\* C21 (as claimed): the harvester with limits builds a page request only
\* when fewer than MaxDurationCfg clock ticks have passed since its start.
C21_NoRequestAtDuration ==
    [][(Limited /\ h'[MainThread].requests > h[MainThread].requests)
       => h'[MainThread].elapsed < MaxDurationCfg]_vars

\* stats with the given total and 403 counters
StatsOf(total, c403) == [ZeroStats EXCEPT !["total"] = total, !["403"] = c403]

\* C22: the early stop holds exactly when total > threshold and more than
\* 99.5% of the captures are 403 (10001/9990 stops, 10001/9000 and every
\* total <= 10000 do not), and no request is built while it holds.
C22_EarlyStop ==
    LET st == h[MainThread].stats
        holds == st["total"] > StableThresholdCfg /\ st["403"] * 1000 > 995 * st["total"]
    IN  /\ StableBlock(StatsOf(10001, 9990), 10000)
        /\ ~StableBlock(StatsOf(10001, 9000), 10000)
        /\ ~StableBlock(StatsOf(10000, 10000), 10000)
        /\ ~StableBlock(StatsOf(10200, 10149), 10000)
        /\ StableBlock(StatsOf(10200, 10150), 10000)
        /\ \A t \in 0..(StableThresholdCfg + 2) : \A c \in 0..t :
              StableBlock(StatsOf(t, c), StableThresholdCfg)
                  <=> (t > StableThresholdCfg /\ c * 1000 > 995 * t)
        /\ (Limited /\ h[MainThread].pc = "attempt") => ~holds
        /\ (Limited /\ h[MainThread].why = "early_stop_stable_block")
              => (h[MainThread].pc = "returned" /\ holds)

\* a harvest was ended by the early stop
C22_Witness ==
    /\ Limited
    /\ h[MainThread].pc = "returned"
    /\ h[MainThread].why = "early_stop_stable_block"
    /\ h[MainThread].pages_processed < MaxPagesCfg

\* the data-row shape: a 14-digit numeric timestamp followed by a status field
ConformsDataRow(row) ==
    /\ Len(row) >= 2
    /\ row[1].t = "str"
    /\ Len(row[1].v) = 14
    /\ \A i \in 1..Len(row[1].v) : row[1].v[i] \in Digits

\* C23 (as claimed): a non-empty page is terminal (no token is taken from
\* it) exactly when its last row has the data-row shape.
C23_TokenIffNotDataRow ==
    [][\A resp \in HarvestResponses : \A dt \in HarvestTicks :
          (/\ resp.kind = "list" /\ Len(resp.rows) > 0
           /\ HarvestAttempt(resp, dt)
           /\ h'[MainThread].pc # "raised")
          => ((h'[MainThread].pc = "returned" /\ h'[MainThread].why = "completed")
                  <=> ConformsDataRow(resp.rows[Len(resp.rows)]))]_vars

\* the step answers the current request with resp and builds the next one
BuildsNext(resp, dt) ==
    /\ h[MainThread].pc = "attempt"
    /\ HarvestAttempt(resp, dt)
    /\ h'[MainThread].requests = h[MainThread].requests + 1

\* the next request carries the token of the page just fetched, which exists
\* and differs from the token the page was fetched with
CarriesFreshToken(resp) ==
    /\ resp.kind = "list"
    /\ Truthy(DetectKey(resp.rows))
    /\ h'[MainThread].sent[h'[MainThread].requests] = DetectKey(resp.rows)
    /\ DetectKey(resp.rows) # h[MainThread].sent[h[MainThread].requests]

\* C24, the tokens: the first request carries no token, and a next request
\* is built only with the fresh token of the page just fetched, below the
\* page limit and outside the early stop.
C24_TokenChain ==
    [][/\ h'[MainThread].requests >= 1 => h'[MainThread].sent[1] = None
       /\ \A resp \in HarvestResponses : \A dt \in HarvestTicks :
             BuildsNext(resp, dt) =>
                 /\ CarriesFreshToken(resp)
                 /\ Limited =>
                       /\ h'[MainThread].pages_processed < MaxPagesCfg
                       /\ ~StableBlock(h'[MainThread].stats, StableThresholdCfg)]_vars

\* C24 (as claimed): a next request is built only with the fresh token of
\* the page just fetched and when no early-stop condition holds: fewer than
\* MaxPagesCfg pages, less than MaxDurationCfg elapsed, no stable block.
C24_NextRequestOnlyIf ==
    [][\A resp \in HarvestResponses : \A dt \in HarvestTicks :
          BuildsNext(resp, dt) =>
              /\ CarriesFreshToken(resp)
              /\ Limited =>
                    /\ h'[MainThread].pages_processed < MaxPagesCfg
                    /\ h'[MainThread].elapsed < MaxDurationCfg
                    /\ ~StableBlock(h'[MainThread].stats, StableThresholdCfg)]_vars

\* the number of rows of a page that are counted
NValid(rows) == Cardinality({i \in 1..Len(rows) : Counted(rows[i])})

\* C25, the total: a page that is folded adds the number of its valid rows
\* to the total, each row once, and at most one request follows it.
C25_RowsCountedOnce ==
    [][\A resp \in HarvestResponses : \A dt \in HarvestTicks :
          (/\ h[MainThread].pc = "attempt"
           /\ resp.kind = "list"
           /\ HarvestAttempt(resp, dt)
           /\ h'[MainThread].pc # "raised")
          => /\ h'[MainThread].stats["total"]
                   = h[MainThread].stats["total"] + NValid(resp.rows)
             /\ h'[MainThread].requests <= h[MainThread].requests + 1]_vars

\* C25 (as claimed): when a run has ended, every domain it fetched has its
\* summary row appended by the run and is in the persisted checkpoint.
C25_HarvestedIsCheckpointed ==
    last_end = "finished" =>
        \A d \in fetched : d \in appended /\ d \in CkptDomains

\* C26: a successful response with a blank body or with an empty row list
\* ends the harvest: the call returns through the `if not data` branch
\* (more_pages = False, not the failed-fetch branch), no further request is
\* built and the stats and the monthly buckets are the ones accumulated
\* before the response.
C26_EmptyResponseEnds ==
    [][\A resp \in {EmptyBody, PageNoRows} : \A dt \in HarvestTicks :
        HarvestAttempt(resp, dt)
        => /\ h'[MainThread].pc = "returned"
           /\ h'[MainThread].why = "completed"
           /\ h'[MainThread].requests = h[MainThread].requests
           /\ h'[MainThread].sent = h[MainThread].sent
           /\ h'[MainThread].stats = h[MainThread].stats
           /\ h'[MainThread].monthly = h[MainThread].monthly
           /\ [value |-> Returned(h[MainThread]), why |-> "completed"] \in returned']_vars

\* a harvest with captures counted that ended on an empty response: the
\* last request folded no page
C26_Witness ==
    /\ Limited
    /\ h[MainThread].pc = "returned"
    /\ h[MainThread].why = "completed"
    /\ h[MainThread].pages_processed < h[MainThread].requests
    /\ h[MainThread].stats["total"] > 0
    /\ h[MainThread].retries > 0

\* the fraction q is the quotient num / den, and 0 when den = 0; its own
\* denominator is never 0
IsQuotient(q, num, den) ==
    /\ q[2] > 0
    /\ q[1] >= 0
    /\ IF den = 0 THEN q[1] = 0 ELSE q[1] * den = q[2] * num

\* C27: the ratio of the summary is 4xx / 2xx and 0 when 2xx = 0; the share
\* is 4xx / (2xx + 4xx), 0 when that sum is 0, and lies in [0, 1]; the same
\* for the ratio and the share of every monthly bucket; no denominator is 0.
C27_RatioAndShare ==
    script = "par" =>
        LET st == h[MainThread].stats
            mo == h[MainThread].monthly
            s == Summary(st)
        IN  /\ IsQuotient(s.ratio_4xx_to_2xx, st["4xx"], st["2xx"])
            /\ IsQuotient(s.share_4xx, st["4xx"], st["2xx"] + st["4xx"])
            /\ s.share_4xx[1] <= s.share_4xx[2]
            /\ \A m \in DOMAIN mo :
                  /\ IsQuotient(Ratio(mo[m]), mo[m]["4xx"], mo[m]["2xx"])
                  /\ IsQuotient(Share(mo[m]), mo[m]["4xx"], mo[m]["2xx"] + mo[m]["4xx"])
                  /\ Share(mo[m])[1] <= Share(mo[m])[2]
                  /\ MonthlyRow(1, m, mo[m]).share_month \in 0..10000

\* stats with both denominators positive and a ratio above 1, next to a
\* bucket with 4xx captures and no 2xx capture and a bucket without either
C27_Witness ==
    /\ script = "par"
    /\ h[MainThread].stats["2xx"] > 0
    /\ h[MainThread].stats["4xx"] > h[MainThread].stats["2xx"]
    /\ \E m \in DOMAIN h[MainThread].monthly :
          h[MainThread].monthly[m]["2xx"] = 0 /\ h[MainThread].monthly[m]["4xx"] > 0

\* the rows of each domain are next to each other in rows
Contiguous(rows) ==
    \A i, j \in 1..Len(rows) :
        (i < j /\ rows[i].kind = "row" /\ rows[j].kind = "row"
         /\ rows[i].domain = rows[j].domain)
        => \A k \in i..j : rows[k].kind = "row" /\ rows[k].domain = rows[i].domain

\* the rows of store that are not the header, keeping their order
DataRows(store) == SelectSeq(store.rows, LAMBDA r : r.kind = "row")

\* C28: the writes of write_result_safe are serialized, whatever the order in
\* which the pool threads complete.  Every step that adds rows to the monthly
\* store is one call: it adds the whole list of monthly rows of one domain
\* after the rows already there, while the last summary row is the one of the
\* same domain; so within a run the monthly rows of a domain are contiguous.
C28_WritesSerialized ==
    /\ []((script = "par" /\ run <= 1) => Contiguous(monthlyStore.rows))
    /\ []((script = "par" /\ mainpc = "write_monthly")
           => /\ Len(DataRows(summaryStore)) > 0
              /\ DataRows(summaryStore)[Len(DataRows(summaryStore))].domain = cur.domain)
    /\ [][(script = "par" /\ DataRows(monthlyStore') # DataRows(monthlyStore))
           => /\ mainpc = "write_monthly"
              /\ DataRows(monthlyStore') = DataRows(monthlyStore) \o cur.m_rows
              /\ \A i \in 1..Len(cur.m_rows) : cur.m_rows[i].domain = cur.domain
              /\ cur'.m_rows = << >>]_vars

\* two domains with two monthly rows each were written by one run of the
\* thread-pool script
C28_Witness ==
    /\ script = "par" /\ run <= 1
    /\ \E d1, d2 \in Domains :
          /\ d1 # d2
          /\ \A d \in {d1, d2} :
                Cardinality({i \in 1..Len(monthlyStore.rows) :
                               monthlyStore.rows[i].kind = "row"
                               /\ monthlyStore.rows[i].domain = d}) >= 2

\* the store holds rows only under one header row, its first row
HeaderOnceFirst(store) ==
    Len(store.rows) > 0 =>
        /\ store.rows[1] = Header
        /\ \A i \in 2..Len(store.rows) : store.rows[i] # Header

\* C29 (as claimed): after any sequence of writes, across runs and restarts,
\* each store that holds rows has exactly one header row, its first row.
C29_OneHeaderFirst == HeaderOnceFirst(summaryStore) /\ HeaderOnceFirst(monthlyStore)

\* C30 (as claimed): no run fails on loading the checkpoint; it starts from
\* the empty set when the file is absent or is not a checkpoint record.
C30_LoadNeverFails == last_end # "load_error"

\* C31: a save_checkpoint call of measure_resistance.py that meets an I/O
\* error does not end the run (the final save apart, after which the run ends
\* as finished) and loses nothing of the processed domains held in memory;
\* every save that succeeds writes all of them, the loaded ones and the ones
\* completed before a failed save included.
C31_FailedSaveKeepsMemory ==
    [][/\ SaveFails
          => /\ last_end' \in {"running", "finished"}
             /\ processed_set' = processed_set
             /\ Range(processed_list) \subseteq Range(processed_list') \/ mainpc' = "off"
             /\ mainpc' # "off" => written \subseteq Range(processed_list')
       /\ (script \in {"seq", "par"} /\ mainpc # "off" /\ ckptFile' # ckptFile
           /\ ckptFile'.ok)
          => /\ Range(processed_list) \subseteq Range(ckptFile'.list)
             /\ processed_set \subseteq Range(ckptFile'.list)
             /\ written \subseteq Range(ckptFile'.list)]_vars

\* a save failed and left the file truncated, the run went on, and a later
\* harvest is under way with the domain of the failed save still in memory
C31_Witness ==
    /\ script = "seq" /\ run = 1
    /\ ckptFile = TornCheckpoint
    /\ mainpc = "harvest"
    /\ Len(processed_list) >= 1

\* C32: when a run has ended without interruption, the checkpoint on disk is
\* the set loaded at its start united with the domains whose result the run
\* wrote, whether or not their number is a multiple of the save interval.
C32_FinalCheckpoint ==
    last_end = "finished" =>
        /\ ckptFile.exists /\ ckptFile.ok
        /\ CkptDomains = processed_set \cup written

\* a fast-scan run that wrote a number of results that is not a multiple of
\* the save interval, and ended
C32_Witness ==
    /\ script = "fast"
    /\ last_end = "finished"
    /\ Len(DataRows(summaryStore)) % SaveEveryFast # 0
    /\ written # {}

\* the branches that end a harvest before the index API said it was complete
EarlyStops ==
    {"page_limit", "duration_limit", "early_stop_stable_block", "fetch_failed",
     "resume_loop_detected"}

\* C33: every harvest that returned a summary, whatever branch ended it, has
\* its rows written and its domain in the checkpoint when the run has ended
\* without interruption, and no run harvests a domain of the checkpoint it
\* loaded.
C33_PartialIsCheckpointed ==
    /\ last_end = "finished" =>
          \A r \in returned : r.domain \in written /\ r.domain \in CkptDomains
    /\ fetched \cap processed_set = {}

\* a run of the thread-pool script ended after one harvest was stopped by
\* the page limit and the other by the stable-block early stop
C33_Witness ==
    /\ script = "par"
    /\ last_end = "finished"
    /\ \E r1, r2 \in returned :
          /\ r1.why = "page_limit" /\ r2.why = "early_stop_stable_block"
          /\ {r1.domain, r2.domain} \subseteq CkptDomains

\* C34 (as claimed): the column-header row is never taken as a resume token:
\* it is never the resume key of a harvest nor the resumeKey parameter of a
\* request.
C34_HeaderNeverToken ==
    /\ h[MainThread].resume_key # Str(TIMESTAMP)
    /\ \A i \in 1..Len(h[MainThread].sent) : h[MainThread].sent[i] # Str(TIMESTAMP)

\* the branches of the harvester with limits that the other one lacks
LimitStops == {"page_limit", "duration_limit", "early_stop_stable_block"}

C35_HarvestEnds == <>(h[MainThread].pc \in {"returned", "raised"})

\* C36 (as claimed): no step, a crash inside save_checkpoint included, takes
\* a domain out of what the next load of the checkpoint returns.
C36_SaveKeepsCheckpoint == [][CkptDomains \subseteq CkptDomains']_vars

\* C38 (as claimed): in the first fast-scan run on an empty disk, no domain
\* has more than one row in the output store, also when the input list names
\* it on several lines.
C38_FastScanOnce ==
    (script = "fast" /\ run = 1) =>
        \A d \in Domains : Cardinality(SummaryRowsOf(d)) <= 1

====
